---- MODULE Spec2Model ----
(***************************************************************************)
(* core-engine: the bytecode compiler (src/compiler/compiler.rs) and the   *)
(* disassembler (src/disassembler/mod.rs).                                 *)
(*                                                                         *)
(* The compiler is a recursive descent over the AST.  It is modelled as a  *)
(* machine with an explicit stack of frames: one frame per call that is    *)
(* still in progress, holding the call's local variables.  The AST is the  *)
(* input: each node is drawn from a small set when the walk reaches it,    *)
(* except expressions, which are drawn whole (an initializer is compiled   *)
(* once per bound name, so it has to be the same tree every time).         *)
(* Code indices are 0-based as in the source: word i of `code` is          *)
(* code[i + 1].                                                            *)
(***************************************************************************)
EXTENDS Integers, Sequences, FiniteSets, TLC

VARIABLES
  code,       \* Compiler.code: Vec<usize>
  constants,  \* Compiler.constants: Vec<Value>
  variables,  \* Context: slot i holds the name variables[i + 1]
  stack,      \* the compiler's call stack, innermost call first
  status,     \* "compiling", "done" (compile returned), "panicked"
  err,        \* the panic message: <<>> or <<[kind, name]>>
  returned,   \* the CompilerReturn: <<>> or <<[code, constants]>>
  nstmts,     \* statements compiled so far in this pass
  ifs,        \* history: one record per finished if statement
  nbool,      \* history: boolean literals compiled
  binds,      \* history: define_variable calls, in order: [name, slot]
  inits,      \* history: SET_CONTEXT emitted by declarator_init: [name, operand]
  ip,         \* Disassembler: the instruction pointer of disassemble
  dstate,     \* "idle", "running", "done", "panicked"
  dlast,      \* history: the last disassemble_instruction call
  dfault      \* history: the faulty read of the disassembler, if any

compVars == <<code, constants, variables, stack, status, err, returned, nstmts>>
histVars == <<ifs, nbool, binds, inits>>
disVars == <<ip, dstate, dlast, dfault>>
vars == <<compVars, histVars, disVars>>

(***************************************************************************)
(* Bounds of the model.                                                    *)
(***************************************************************************)
MaxStmts == 3   \* statements per pass (all nesting levels together; a declarator
                \* after the first of its declaration counts as one)
MaxDepth == 2   \* nesting depth of if / block statements
MaxVal == 2     \* literals take the values 1 .. MaxVal
MaxVars == 2    \* bindings (define_variable calls) per pass

(***************************************************************************)
(* crate::bytecode::opcode.  The numbering follows the order in which the  *)
(* instruction set is enumerated.                                          *)
(***************************************************************************)
OPCODE_HALF == 0
OPCODE_CONST == 1
OPCODE_ADD == 2
OPCODE_SUB == 3
OPCODE_MUL == 4
OPCODE_DIV == 5
OPCODE_EQ == 6
OPCODE_JUMP == 7
OPCODE_JUMP_IF_FALSE == 8
OPCODE_LOAD_CONTEXT == 9
OPCODE_SET_CONTEXT == 10

(***************************************************************************)
(* crate::values::Value: a tagged value.  A text is represented by its     *)
(* number in a list of distinct texts, a boolean by 0 / 1.                 *)
(***************************************************************************)
Number(v) == [tag |-> "Number", val |-> v]
Boolean(v) == [tag |-> "Boolean", val |-> v]
String(v) == [tag |-> "String", val |-> v]
is_number(value) == value.tag = "Number"
is_string(value) == value.tag = "String"

(***************************************************************************)
(* The AST (oxc_ast), the input of the compiler.                           *)
(***************************************************************************)
Names == {"x", "g"}
LetNames == {"x", "y"}
\* Context.is_global_variable: the names the Context knows as globals
Globals == {"g"}

NumericLiteral(v) == [t |-> "NumericLiteral", v |-> v]
BooleanLiteral(v) == [t |-> "BooleanLiteral", v |-> v]
StringLiteral(v) == [t |-> "StringLiteral", v |-> v]
Identifier(n) == [t |-> "Identifier", name |-> n]
BinaryExpression(op, l, r) == [t |-> "BinaryExpression", op |-> op, l |-> l, r |-> r]
\* any other expression kind (a call, an assignment, ...)
OtherExpression == [t |-> "Other"]

\* "+" stands for the four arithmetic operators, "%" for the unsupported ones
Operators == {"+", "===", "%"}

LeafExprs ==
  {NumericLiteral(v) : v \in 1..MaxVal} \cup {BooleanLiteral(1)}
    \cup {StringLiteral(v) : v \in 1..MaxVal} \cup {Identifier(n) : n \in Names}
    \cup {OtherExpression}

BinExprs ==
  {BinaryExpression(op, NumericLiteral(1), NumericLiteral(MaxVal)) : op \in Operators}
    \cup {BinaryExpression("===", BooleanLiteral(1), BooleanLiteral(1))}

Exprs == LeafExprs \cup BinExprs

\* the expressions used as the test of an if and as an initializer
TestExprs == {BooleanLiteral(1)}
InitExprs == {NumericLiteral(1)}

\* binding patterns; an array element is a pattern or a hole (<<>>)
BindingIdentifier(n) == [t |-> "BindingIdentifier", name |-> n]
ArrayPattern(elems) == [t |-> "ArrayPattern", elements |-> elems]
ObjectPattern(keys) == [t |-> "ObjectPattern", properties |-> keys]
AssignmentPattern == [t |-> "AssignmentPattern"]
IdentifierKey(n) == [t |-> "Identifier", name |-> n]

IdentPatterns == {BindingIdentifier(n) : n \in LetNames}

Patterns ==
  IdentPatterns \cup {AssignmentPattern}
    \cup {ArrayPattern(<<a, <<b>>>>) :
            a \in {<<>>, <<BindingIdentifier("x")>>},
            b \in {BindingIdentifier("x"), AssignmentPattern}}
    \cup {ObjectPattern(<<IdentifierKey("x"), b>>) :
            b \in {IdentifierKey("y"), [t |-> "Expression"], [t |-> "PrivateIdentifier"]}}

\* a declarator: a pattern and an optional initializer (<<>> or <<e>>); a
\* declarator without initializer is a plain identifier
Declarators ==
  {[id |-> p, init |-> <<e>>] : p \in Patterns, e \in InitExprs}
    \cup {[id |-> p, init |-> <<>>] : p \in IdentPatterns}

\* statements: the children of an if and of a block are drawn when the walk
\* reaches them
StmtShapes(d) ==
  {[t |-> "ExpressionStatement", expression |-> e] : e \in Exprs}
    \cup {[t |-> "VariableDeclaration", kind |-> k] : k \in {"let", "var", "const"}}
    \cup {[t |-> "FunctionDeclaration"], [t |-> "EmptyStatement"], [t |-> "Other"]}
    \cup (IF d < MaxDepth
          THEN {[t |-> "IfStatement", test |-> e, alternate |-> a] :
                  e \in TestExprs, a \in BOOLEAN}
                 \cup {[t |-> "BlockStatement"]}
          ELSE {})

(***************************************************************************)
(* Context (crate::context), the scope table shared by both components.    *)
(***************************************************************************)
\* define_variable(name, None): a new slot, the next index
define_variable(vs, name) == [variables |-> Append(vs, name), index |-> Len(vs)]
\* get_variable_index(name): the slots bound to the name.  Which one is
\* returned when the name was bound more than once is left open.
get_variable_index(vs, name) == {i \in 0..(Len(vs) - 1) : vs[i + 1] = name}
is_global_variable(name) == name \in Globals

(***************************************************************************)
(* Compiler: helpers that compute on the code buffer and the pool.         *)
(***************************************************************************)
Min(S) == CHOOSE m \in S : \A n \in S : m <= n

emit(c, byte) == Append(c, byte)
emit2(c, opcode, operand) == emit(emit(c, opcode), operand)

\* numerics_constants_index: the first Number entry equal to value, else a
\* new entry; the pool and the index
numerics_constants_index_nodedup(cs, value) ==
  [constants |-> Append(cs, Number(value)), index |-> Len(cs)]
numerics_constants_index(cs, value) ==
  LET found == {i \in 1..Len(cs) : is_number(cs[i]) /\ cs[i].val = value}
  IN IF found # {}
     THEN [constants |-> cs, index |-> Min(found) - 1]
     ELSE [constants |-> Append(cs, Number(value)), index |-> Len(cs)]

string_constants_index(cs, value) ==
  LET found == {i \in 1..Len(cs) : is_string(cs[i]) /\ cs[i].val = value}
  IN IF found # {}
     THEN [constants |-> cs, index |-> Min(found) - 1]
     ELSE [constants |-> Append(cs, String(value)), index |-> Len(cs)]

\* generate_boolean_literal, lines 212-213: push, then the index of the push
boolean_constants_index_off(cs, value) ==
  [constants |-> Append(cs, Boolean(value)), index |-> Len(cs) + 1]
boolean_constants_index(cs, value) ==
  [constants |-> Append(cs, Boolean(value)), index |-> Len(Append(cs, Boolean(value))) - 1]

\* generate_if_statement, line 97: self.code[jump_if_false_address] = self.code.len()
patch_jump_if_false_early(c, address) == [c EXCEPT ![address + 1] = Len(c) - 2]
patch_jump_if_false_operand(c, address) == [c EXCEPT ![address + 1] = Len(c) - 1]
patch_jump_if_false(c, address) == [c EXCEPT ![address + 1] = Len(c)]
\* generate_if_statement, line 104: self.code[jump_address] = self.code.len()
patch_jump_skipped(c, address) == c
patch_jump(c, address) == [c EXCEPT ![address + 1] = Len(c)]

\* generate_identifier, lines 195-196
load_context_next(c, index) == emit2(c, OPCODE_LOAD_CONTEXT, index + 1)
load_context(c, index) == emit2(c, OPCODE_LOAD_CONTEXT, index)

(***************************************************************************)
(* Compiler: frames.                                                       *)
(***************************************************************************)
\* generate / generate_block_statement: the loop over a body
BodyFrame(top, d) == [k |-> "body", top |-> top, d |-> d]
\* a single statement still to compile (a branch of an if)
StmtFrame(d) == [k |-> "stmt", d |-> d]
\* generate_expression(e), not yet entered
ExprFrame(e) == [k |-> "expr", e |-> e]
\* generate_binary_expression after both operands
BinopFrame(op) == [k |-> "binop", op |-> op]
\* generate_if_statement: pc 1 after the test, 2 after the consequent, 3
\* after the alternate; a / b are jump_if_false_address / jump_address
\* (bstart: history, the code length when the alternate begins)
IfFrame(pc, a, b, bstart, alt, d) ==
  [k |-> "if", pc |-> pc, a |-> a, b |-> b, bstart |-> bstart, alt |-> alt, d |-> d]
\* generate_let_variable_declaration: the loop over the declarators
\* (n declarators done)
LetFrame(n) == [k |-> "let", n |-> n]
\* _binding_pattern(pattern, init), not yet entered
PatternFrame(p, init) == [k |-> "pattern", p |-> p, init |-> init]
\* _binding_pattern, ObjectPattern arm: one property of the loop
PropertyFrame(key, init) == [k |-> "property", key |-> key, init |-> init]
\* declarator_init after the initializer: emit SET_CONTEXT idx
SetFrame(idx, name) == [k |-> "set", idx |-> idx, name |-> name]

Top == Head(stack)
Rest == Tail(stack)
Compiling == status = "compiling" /\ stack # <<>>
At(k) == Compiling /\ Top.k = k

\* the compiler goes on with these values; the history stays unless said
Go(c, cs, vs, st) ==
  /\ code' = c /\ constants' = cs /\ variables' = vs /\ stack' = st
  /\ UNCHANGED <<status, err, returned, disVars>>

\* panic!(...): the pass is over and compile never returns
PanicAndGoOn(kind, name) ==
  /\ err' = <<[kind |-> kind, name |-> name]>>
  /\ stack' = Rest
  /\ UNCHANGED <<status, code, constants, variables, returned, nstmts, histVars, disVars>>
Panic(kind, name) ==
  /\ status' = "panicked"
  /\ err' = <<[kind |-> kind, name |-> name]>>
  /\ UNCHANGED <<code, constants, variables, stack, returned, nstmts, histVars, disVars>>

Keep == UNCHANGED <<nstmts, histVars>>

(***************************************************************************)
(* Compiler: statements.                                                   *)
(***************************************************************************)
\* the frames left once the statement on top is taken: the loop over a body
\* stays, a single statement is consumed
Taken == IF Top.k = "body" THEN stack ELSE Rest

generate_expression_statement(s) ==
  /\ s.t = "ExpressionStatement"
  /\ Go(code, constants, variables, <<ExprFrame(s.expression)>> \o Taken)
  /\ nstmts' = nstmts + 1 /\ UNCHANGED histVars

generate_variable_declaration(s) ==
  /\ s.t = "VariableDeclaration"
  /\ \/ /\ s.kind = "let"
        /\ Go(code, constants, variables, <<LetFrame(0)>> \o Taken)
        /\ nstmts' = nstmts + 1 /\ UNCHANGED histVars
     \/ /\ s.kind # "let"
        /\ Panic("Unknown variable declaration kind", "")

generate_declaration(s) ==
  \/ generate_variable_declaration(s)
  \/ /\ s.t = "FunctionDeclaration"
     /\ Panic("Unknown declaration", "")

generate_if_statement(s) ==
  /\ s.t = "IfStatement"
  /\ Go(code, constants, variables,
        <<ExprFrame(s.test), IfFrame(1, 0, 0, 0, s.alternate, Top.d + 1)>> \o Taken)
  /\ nstmts' = nstmts + 1 /\ UNCHANGED histVars

generate_empty_statement(s) ==
  /\ s.t = "EmptyStatement"
  /\ Go(emit(code, OPCODE_HALF), constants, variables, Taken)
  /\ nstmts' = nstmts + 1 /\ UNCHANGED histVars

generate_block_statement(s) ==
  /\ s.t = "BlockStatement"
  /\ Go(code, constants, variables, <<BodyFrame(FALSE, Top.d + 1)>> \o Taken)
  /\ nstmts' = nstmts + 1 /\ UNCHANGED histVars

generate_statement ==
  /\ (At("body") \/ At("stmt")) /\ nstmts < MaxStmts
  /\ \E s \in StmtShapes(Top.d) :
       \/ generate_expression_statement(s)
       \/ generate_declaration(s)
       \/ generate_if_statement(s)
       \/ generate_empty_statement(s)
       \/ generate_block_statement(s)
       \/ s.t = "Other" /\ Panic("Unknown statement", "")

\* generate_block_statement: the body is over
block_end ==
  /\ At("body") /\ ~Top.top
  /\ Go(code, constants, variables, Rest) /\ Keep

\* generate: the body is over, push the halt opcode; compile returns
generate ==
  /\ At("body") /\ Top.top
  /\ code' = emit(code, OPCODE_HALF)
  /\ status' = "done"
  /\ returned' = <<[code |-> code', constants |-> constants]>>
  /\ stack' = Rest
  /\ UNCHANGED <<constants, variables, err, nstmts, histVars, disVars>>

\* generate_if_statement, steps 2-5 (lines 83-89): the test is compiled
if_consequent ==
  /\ At("if") /\ Top.pc = 1
  /\ LET c == emit(code, OPCODE_JUMP_IF_FALSE)
         jump_if_false_address == Len(c)
     IN Go(emit(c, 0), constants, variables,
           <<StmtFrame(Top.d), IfFrame(2, jump_if_false_address, 0, 0, Top.alt, Top.d)>> \o Rest)
  /\ Keep

\* generate_if_statement, steps 6-12 (lines 91-104): the consequent is compiled
if_alternate ==
  /\ At("if") /\ Top.pc = 2
  /\ LET c == emit(code, OPCODE_JUMP)
         jump_address == Len(c)
         c2 == patch_jump_if_false(emit(c, 0), Top.a)
     IN IF Top.alt
        THEN /\ Go(c2, constants, variables,
                   <<StmtFrame(Top.d), IfFrame(3, Top.a, jump_address, Len(emit(c, 0)), TRUE, Top.d)>>
                     \o Rest)
             /\ Keep
        ELSE /\ Go(patch_jump(c2, jump_address), constants, variables, Rest)
             /\ ifs' = ifs \cup {[a |-> Top.a, b |-> jump_address, bstart |-> Len(emit(c, 0)),
                                  join |-> Len(emit(c, 0)), alt |-> FALSE]}
             /\ UNCHANGED <<nstmts, nbool, binds, inits>>

\* generate_if_statement, step 12 (line 104): the alternate is compiled
if_end ==
  /\ At("if") /\ Top.pc = 3
  /\ Go(patch_jump(code, Top.b), constants, variables, Rest)
  /\ ifs' = ifs \cup {[a |-> Top.a, b |-> Top.b, bstart |-> Top.bstart,
                       join |-> Len(code), alt |-> TRUE]}
  /\ UNCHANGED <<nstmts, nbool, binds, inits>>

(***************************************************************************)
(* Compiler: declarations.                                                 *)
(***************************************************************************)
\* generate_let_variable_declaration: the next declarator
generate_let_variable_declaration ==
  /\ At("let") /\ (Top.n = 0 \/ nstmts < MaxStmts)
  /\ \E declarator \in Declarators :
       Go(code, constants, variables,
          <<PatternFrame(declarator.id, declarator.init), LetFrame(Top.n + 1)>> \o Rest)
  /\ nstmts' = IF Top.n = 0 THEN nstmts ELSE nstmts + 1
  /\ UNCHANGED histVars

let_end ==
  /\ At("let") /\ Top.n >= 1
  /\ Go(code, constants, variables, Rest) /\ Keep

\* declarator_init(init, idx): compile the initializer, then SET_CONTEXT idx
declarator_init(init, idx, name) ==
  IF init # <<>> THEN <<ExprFrame(init[1]), SetFrame(idx, name)>> ELSE <<>>

\* lines 124-125 and 138-139: define the name, then declarator_init
bind_name(name, init) ==
  /\ Len(variables) < MaxVars
  /\ LET r == define_variable(variables, name)
     IN /\ Go(code, constants, r.variables, declarator_init(init, r.index, name) \o Rest)
        /\ binds' = Append(binds, [name |-> name, slot |-> r.index])
  /\ UNCHANGED <<nstmts, ifs, nbool, inits>>

Present(elements) == SelectSeq(elements, LAMBDA e : e # <<>>)

binding_pattern ==
  /\ At("pattern")
  /\ LET pattern == Top.p
         init == Top.init
     IN \/ /\ pattern.t = "BindingIdentifier"
           /\ bind_name(pattern.name, init)
        \/ /\ pattern.t = "ArrayPattern"
           /\ Go(code, constants, variables,
                 [i \in 1..Len(Present(pattern.elements)) |->
                    PatternFrame(Present(pattern.elements)[i][1], init)] \o Rest)
           /\ Keep
        \/ /\ pattern.t = "ObjectPattern"
           /\ Go(code, constants, variables,
                 [i \in 1..Len(pattern.properties) |->
                    PropertyFrame(pattern.properties[i], init)] \o Rest)
           /\ Keep
        \/ /\ pattern.t = "AssignmentPattern"
           /\ Panic("Assignment pattern not supported", "")

\* _binding_pattern, ObjectPattern arm: one property
binding_property ==
  /\ At("property")
  /\ \/ /\ Top.key.t = "Identifier"
        /\ bind_name(Top.key.name, Top.init)
     \/ /\ Top.key.t = "Expression"
        /\ Panic("Expression key not supported", "")
     \/ /\ Top.key.t \notin {"Identifier", "Expression"}
        /\ Panic("Unknown property key", "")

\* declarator_init, lines 162-163: the initializer is compiled
set_context ==
  /\ At("set")
  /\ Go(emit2(code, OPCODE_SET_CONTEXT, Top.idx), constants, variables, Rest)
  /\ inits' = inits \cup {[name |-> Top.name, operand |-> code'[Len(code')]]}
  /\ UNCHANGED <<nstmts, ifs, nbool, binds>>

(***************************************************************************)
(* Compiler: expressions.                                                  *)
(***************************************************************************)
generate_numeric_literal ==
  /\ At("expr") /\ Top.e.t = "NumericLiteral"
  /\ LET r == numerics_constants_index(constants, Top.e.v)
     IN Go(emit2(code, OPCODE_CONST, r.index), r.constants, variables, Rest)
  /\ Keep

generate_boolean_literal ==
  /\ At("expr") /\ Top.e.t = "BooleanLiteral"
  /\ LET r == boolean_constants_index(constants, Top.e.v)
     IN Go(emit2(code, OPCODE_CONST, r.index), r.constants, variables, Rest)
  /\ nbool' = nbool + 1
  /\ UNCHANGED <<nstmts, ifs, binds, inits>>

generate_string_literal ==
  /\ At("expr") /\ Top.e.t = "StringLiteral"
  /\ LET r == string_constants_index(constants, Top.e.v)
     IN Go(emit2(code, OPCODE_CONST, r.index), r.constants, variables, Rest)
  /\ Keep

\* generate_binary_expression, lines 267-268: left, then right
generate_binary_expression ==
  /\ At("expr") /\ Top.e.t = "BinaryExpression"
  /\ Go(code, constants, variables,
        <<ExprFrame(Top.e.l), ExprFrame(Top.e.r), BinopFrame(Top.e.op)>> \o Rest)
  /\ Keep

BinaryOpcode(op) ==
  CASE op = "+" -> OPCODE_ADD
    [] op = "-" -> OPCODE_SUB
    [] op = "*" -> OPCODE_MUL
    [] op = "/" -> OPCODE_DIV
    [] op = "===" -> OPCODE_EQ

\* generate_binary_expression, lines 269-289: both operands are compiled
binary_operator ==
  /\ At("binop")
  /\ \/ /\ Top.op \in {"+", "-", "*", "/", "==="}
        /\ Go(emit(code, BinaryOpcode(Top.op)), constants, variables, Rest)
        /\ Keep
     \/ /\ Top.op \notin {"+", "-", "*", "/", "==="}
        /\ Panic("Unknown binary operator", "")

generate_identifier ==
  /\ At("expr") /\ Top.e.t = "Identifier"
  /\ LET name == Top.e.name
         found == get_variable_index(variables, name)
     IN \/ /\ \E index \in found :
                Go(load_context(code, index), constants, variables, Rest)
           /\ Keep
        \/ /\ found = {}
           /\ ~is_global_variable(name)
           /\ Panic("is not implemented yet", name)
        \/ /\ found = {}
           /\ is_global_variable(name)
           /\ Panic("Reference Error: is not defined", name)

unknown_expression ==
  /\ At("expr") /\ Top.e.t = "Other"
  /\ Panic("Unknown expression", "")

generate_expression ==
  \/ generate_numeric_literal
  \/ generate_boolean_literal
  \/ generate_string_literal
  \/ generate_binary_expression
  \/ generate_identifier
  \/ unknown_expression

(***************************************************************************)
(* Disassembler, run on what compile returned, with the same Context.      *)
(***************************************************************************)
dcode == returned[1].code
dconstants == returned[1].constants

Fetch(c, i) == c[i + 1]

disassemble_simple(offset) == offset + 1
disassemble_operand(offset) == offset + 2
\* the default arm, line 62
disassemble_unknown_wide(offset) == offset + 2
disassemble_unknown(offset) == offset + 1

Simple == {OPCODE_HALF, OPCODE_ADD, OPCODE_EQ, OPCODE_SUB, OPCODE_MUL, OPCODE_DIV}
LoadSet == {OPCODE_SET_CONTEXT, OPCODE_LOAD_CONTEXT}

\* Disassembler::new and the entry of disassemble
disassemble ==
  /\ status = "done" /\ dstate = "idle"
  /\ dstate' = "running" /\ ip' = 0
  /\ UNCHANGED <<compVars, histVars, dlast, dfault>>

Decoded(opcode, unknown, next) ==
  /\ dstate' = "running" /\ ip' = next
  /\ dlast' = <<[ip |-> ip, opcode |-> opcode, unknown |-> unknown]>>
  /\ UNCHANGED dfault

\* an index out of bounds ends the process
Fault(opcode, what) ==
  /\ dstate' = "panicked" /\ dfault' = what
  /\ dlast' = <<[ip |-> ip, opcode |-> opcode, unknown |-> FALSE]>>
  /\ UNCHANGED ip

\* one turn of the loop of disassemble: disassemble_instruction(ip)
disassemble_instruction ==
  /\ dstate = "running" /\ ip < Len(dcode)
  /\ LET opcode == Fetch(dcode, ip)
     IN \/ /\ opcode \in Simple
           /\ Decoded(opcode, FALSE, disassemble_simple(ip))
        \/ /\ opcode = OPCODE_CONST
           /\ IF ip + 1 >= Len(dcode)
              THEN Fault(opcode, "code")
              ELSE IF Fetch(dcode, ip + 1) >= Len(dconstants)
                   THEN Fault(opcode, "constants")
                   ELSE Decoded(opcode, FALSE, disassemble_operand(ip))
        \/ /\ opcode \in LoadSet
           /\ IF ip + 1 >= Len(dcode)
              THEN Fault(opcode, "code")
              ELSE IF Fetch(dcode, ip + 1) >= Len(variables)
                   \* get_variable_name of a slot that does not exist: it
                   \* may end the process or answer something
                   THEN \/ Fault(opcode, "slot")
                        \/ /\ dstate' = "running" /\ ip' = disassemble_operand(ip)
                           /\ dlast' = <<[ip |-> ip, opcode |-> opcode, unknown |-> FALSE]>>
                           /\ dfault' = "slot"
                   ELSE Decoded(opcode, FALSE, disassemble_operand(ip))
        \* the default arm: the word is printed (opcode_to_string answers
        \* for any word) and the pointer moves on
        \/ /\ opcode \notin Simple \cup LoadSet \cup {OPCODE_CONST}
           /\ Decoded(opcode, TRUE, disassemble_unknown(ip))
  /\ UNCHANGED <<compVars, histVars>>

\* the loop of disassemble ends
disassemble_end ==
  /\ dstate = "running" /\ ~(ip < Len(dcode))
  /\ dstate' = "done"
  /\ UNCHANGED <<compVars, histVars, ip, dlast, dfault>>

(***************************************************************************)
(* The specification.                                                      *)
(***************************************************************************)
Init ==
  /\ code = <<>> /\ constants = <<>> /\ variables = <<>>
  /\ stack = <<BodyFrame(TRUE, 0)>>
  /\ status = "compiling" /\ err = <<>> /\ returned = <<>> /\ nstmts = 0
  /\ ifs = {} /\ nbool = 0 /\ binds = <<>> /\ inits = {}
  /\ ip = 0 /\ dstate = "idle" /\ dlast = <<>> /\ dfault = "none"

Next ==
  \/ generate_statement
  \/ block_end
  \/ generate
  \/ if_consequent
  \/ if_alternate
  \/ if_end
  \/ generate_let_variable_declaration
  \/ let_end
  \/ binding_pattern
  \/ binding_property
  \/ set_context
  \/ generate_expression
  \/ binary_operator
  \/ disassemble
  \/ disassemble_instruction
  \/ disassemble_end

Spec == Init /\ [][Next]_vars

(***************************************************************************)
(* The instruction format: the arity of every opcode, and the linear       *)
(* decode of a code buffer under it.                                       *)
(***************************************************************************)
Arity(w) ==
  IF w \in {OPCODE_CONST, OPCODE_JUMP, OPCODE_JUMP_IF_FALSE, OPCODE_LOAD_CONTEXT,
            OPCODE_SET_CONTEXT}
  THEN 1 ELSE 0

RECURSIVE Walk(_, _, _)
Walk(c, i, starts) ==
  IF i >= Len(c) THEN [end |-> i, starts |-> starts]
  ELSE Walk(c, i + 1 + Arity(Fetch(c, i)), starts \cup {i})

\* the indices of the opcode words of c, and where the decode ends
Decode(c) == Walk(c, 0, {})
Starts(c) == Decode(c).starts
\* the indices of the JUMP and JUMP_IF_FALSE instructions of c
Jumps(c) == {i \in Starts(c) : Fetch(c, i) \in {OPCODE_JUMP, OPCODE_JUMP_IF_FALSE}}
\* the indices of the CONST instructions of c
Consts(c) == {i \in Starts(c) : Fetch(c, i) = OPCODE_CONST}

(***************************************************************************)
(* The claims.                                                             *)
(***************************************************************************)

\* C1: once compile has returned, for every if statement compiled, the
\* operand of its JUMP_IF_FALSE is the index where its alternate begins (the
\* join point when there is none), and the operand of the JUMP after the
\* consequent is the index of the first word after the whole statement; with
\* no alternate the two are equal.
C1_IfTargets ==
  status = "done" =>
    \A r \in ifs :
      /\ Fetch(dcode, r.a - 1) = OPCODE_JUMP_IF_FALSE
      /\ Fetch(dcode, r.a) = r.bstart
      /\ Fetch(dcode, r.b - 1) = OPCODE_JUMP
      /\ Fetch(dcode, r.b) = r.join
      /\ (~r.alt => Fetch(dcode, r.a) = Fetch(dcode, r.b))

\* an if with a non-empty alternate, and an if nested in another, returned
C1_Witness ==
  /\ status = "done"
  /\ \/ \E r \in ifs : r.alt /\ r.bstart < r.join
     \/ \E r, q \in ifs : r.a < q.a /\ q.join <= r.join

\* C2: in the code compile returns, every operand of a JUMP or a
\* JUMP_IF_FALSE is not the placeholder 0 and is an index into the code.
C2_JumpOperandsPatched ==
  status = "done" =>
    \A i \in Jumps(dcode) :
      /\ Fetch(dcode, i + 1) # 0
      /\ Fetch(dcode, i + 1) >= 0
      /\ Fetch(dcode, i + 1) < Len(dcode)

\* an if with an empty consequent that is the last statement of the program
C2_Witness ==
  /\ status = "done"
  /\ \E i \in Jumps(dcode) :
       /\ Fetch(dcode, i) = OPCODE_JUMP_IF_FALSE
       /\ Fetch(dcode, i + 2) = OPCODE_JUMP
       /\ Fetch(dcode, i + 3) = Len(dcode) - 1

\* C3: a reference to a name without a slot fails with "is not implemented
\* yet" when the Context knows the name as a global, and with "Reference
\* Error: ... is not defined" otherwise.
C3_UnresolvedIdentifierErrors ==
  (err # <<>> /\ err[1].name # "") =>
    /\ get_variable_index(variables, err[1].name) = {}
    /\ err[1].kind = (IF is_global_variable(err[1].name)
                      THEN "is not implemented yet"
                      ELSE "Reference Error: is not defined")

\* the pool: one Boolean entry per boolean literal compiled, no two equal
\* Number entries, no two equal String entries
C4_Pool ==
  /\ Cardinality({i \in 1..Len(constants) : constants[i].tag = "Boolean"}) = nbool
  /\ \A i, j \in 1..Len(constants) :
       (i # j /\ constants[i].tag \in {"Number", "String"} /\ constants[i].tag = constants[j].tag)
         => constants[i].val # constants[j].val

\* the step that compiles a Number / String literal
C4_Literal ==
  (At("expr") /\ Top.e.t \in {"NumericLiteral", "StringLiteral"}) =>
    LET value == IF Top.e.t = "NumericLiteral" THEN Number(Top.e.v) ELSE String(Top.e.v)
        same == {i \in 1..Len(constants) : constants[i] = value}
    IN IF same # {}
       THEN /\ constants' = constants
            /\ code' = code \o <<OPCODE_CONST, Min(same) - 1>>
       ELSE /\ constants' = Append(constants, value)
            /\ code' = code \o <<OPCODE_CONST, Len(constants)>>

\* C4: the pool holds one Boolean entry per boolean literal compiled, no two
\* equal Number entries and no two equal String entries; a Number / String
\* literal whose value is in the pool under its own tag emits CONST with the
\* index of the first such entry and leaves the pool alone, and is appended
\* otherwise, whatever the entries of other tags hold.
C4_ConstantPool == [](C4_Pool) /\ [][C4_Literal]_vars

\* two entries for the same boolean, and a Number entry used by two CONST
C4_Witness ==
  /\ \E i, j \in 1..Len(constants) :
       i # j /\ constants[i].tag = "Boolean" /\ constants[i] = constants[j]
  /\ \E i, j \in Consts(code) :
       /\ i # j /\ Fetch(code, i + 1) = Fetch(code, j + 1)
       /\ constants[Fetch(code, i + 1) + 1].tag = "Number"

\* the steps that bind a name, and the name they bind
BindStep ==
  \/ At("pattern") /\ Top.p.t = "BindingIdentifier"
  \/ At("property") /\ Top.key.t = "Identifier"
BoundName == IF Top.k = "pattern" THEN Top.p.name ELSE Top.key.name

\* a binding calls define_variable once: one new slot, the next one
C5_Allocates ==
  BindStep =>
    /\ variables' = Append(variables, BoundName)
    /\ binds' = Append(binds, [name |-> BoundName, slot |-> Len(variables)])

\* a reference that resolves loads the slot of every earlier binding of its name
C5_LoadsEveryBinding ==
  (At("expr") /\ Top.e.t = "Identifier" /\ status' = "compiling") =>
    \A i \in 1..Len(binds) :
      binds[i].name = Top.e.name =>
        code' = code \o <<OPCODE_LOAD_CONTEXT, binds[i].slot>>

\* C5 as stated: every binding of a name allocates one new slot, and a later
\* reference to the name loads the slot of that binding, whichever binding
\* of the name it is.
C5_Original == [][C5_Allocates /\ C5_LoadsEveryBinding]_vars

\* the name was bound once in the pass so far
BoundOnce(name) == Cardinality({i \in 1..Len(binds) : binds[i].name = name}) = 1

\* a reference to a name bound once loads the slot of that binding, the
\* operand of the SET_CONTEXT of its initializer
C5_LoadsTheBinding ==
  (At("expr") /\ Top.e.t = "Identifier" /\ status' = "compiling" /\ BoundOnce(Top.e.name)) =>
    \A i \in 1..Len(binds) :
      binds[i].name = Top.e.name =>
        /\ code' = code \o <<OPCODE_LOAD_CONTEXT, binds[i].slot>>
        /\ \A s \in inits : s.name = Top.e.name => s.operand = binds[i].slot

\* C5 as amended: every binding of a name allocates one new slot, and a
\* later reference to a name that was bound once in the pass so far loads
\* the slot of that binding, which is also the operand of the SET_CONTEXT
\* of its initializer.
C5_SingleBinding == [][C5_Allocates /\ C5_LoadsTheBinding]_vars

\* let x = 1; let y = 1; x
C5_Witness ==
  /\ Len(binds) = 2 /\ binds[1].name = "x" /\ binds[2].name = "y"
  /\ [name |-> "x", operand |-> binds[1].slot] \in inits
  /\ Len(code) >= 2
  /\ Fetch(code, Len(code) - 2) = OPCODE_LOAD_CONTEXT
  /\ Fetch(code, Len(code) - 1) = binds[1].slot

\* C6: a pass that met an error never returns anything, and what compile
\* returns comes from a pass that met no error and ran to its end.
C6_AllOrNothing ==
  /\ err # <<>> => (status = "panicked" /\ returned = <<>> /\ dstate = "idle")
  /\ returned # <<>> => (status = "done" /\ err = <<>> /\ stack = <<>>)
  /\ status = "done" <=> returned # <<>>

\* an error after code and constants were emitted
C6_Witness ==
  /\ status = "panicked" /\ returned = <<>>
  /\ Len(code) > 0 /\ Len(constants) > 0 /\ nstmts > 1

\* C7: the code compile returns ends with the halt opcode, and in every
\* state of the pass, the last one included (its code and pool are the ones
\* returned), the operand of every CONST emitted so far is less than the
\* length of the pool.
C7_HaltAndConstOperands ==
  /\ status = "done" =>
       /\ Fetch(dcode, Len(dcode) - 1) = OPCODE_HALF
       /\ dcode = code /\ dconstants = constants
  /\ \A i \in Consts(code) : Fetch(code, i + 1) < Len(constants)

\* a returned program with several constants, the last one a boolean in use
C7_Witness ==
  /\ status = "done" /\ Len(dconstants) >= 2
  /\ dconstants[Len(dconstants)].tag = "Boolean"
  /\ \E i \in Consts(dcode) : Fetch(dcode, i + 1) = Len(dconstants) - 1

\* the opcodes disassemble_instruction has an arm for
Recognised ==
  {OPCODE_HALF, OPCODE_CONST, OPCODE_ADD, OPCODE_SUB, OPCODE_MUL, OPCODE_DIV, OPCODE_EQ,
   OPCODE_LOAD_CONTEXT, OPCODE_SET_CONTEXT}

\* one call of disassemble_instruction
C8_Step ==
  (dstate = "running" /\ ip < Len(dcode)) =>
    LET w == Fetch(dcode, ip)
    IN /\ w \notin Recognised =>
            (dstate' = "running" /\ ip' = ip + 1 /\ dlast'[1].unknown /\ dlast'[1].opcode = w)
       /\ (w \in Recognised /\ dstate' = "running") =>
            /\ ~dlast'[1].unknown
            /\ ip' = ip + (IF w \in {OPCODE_CONST, OPCODE_LOAD_CONTEXT, OPCODE_SET_CONTEXT}
                           THEN 2 ELSE 1)

\* C8: a step of the disassembler on a word it does not recognise (JUMP and
\* JUMP_IF_FALSE among them) reports it and moves the pointer by one word,
\* without ending the run, so that the operand of a jump is decoded next; a
\* step on a recognised opcode that returns moves it by one word, or by two
\* for CONST, LOAD_CONTEXT and SET_CONTEXT.
C8_PointerAdvance == [][C8_Step]_vars

\* the operand of a jump, decoded as an opcode after the jump was reported
C8_Witness ==
  /\ dlast # <<>> /\ dlast[1].ip - 1 \in Jumps(dcode)
  /\ ip > dlast[1].ip

\* C9: the disassembly of what compile returned reads nothing out of bounds,
\* asks for no slot that was never allocated, and ends with the pointer at
\* the length of the code.
C9_DisassembleSafe ==
  /\ dstate # "panicked"
  /\ dfault = "none"
  /\ dstate = "done" => ip = Len(dcode)

\* C10: the code compile returns decodes linearly to exactly its length
\* under the arity table, and every jump operand is the index of an opcode
\* word after the jump.
C10_WellFormed ==
  status = "done" =>
    LET d == Decode(dcode)
    IN /\ d.end = Len(dcode)
       /\ \A i \in d.starts :
            Fetch(dcode, i) \in {OPCODE_JUMP, OPCODE_JUMP_IF_FALSE} =>
              /\ Fetch(dcode, i + 1) \in d.starts
              /\ Fetch(dcode, i + 1) > i

\* two ifs and a declaration with an initializer
C10_Witness ==
  /\ status = "done"
  /\ Cardinality(Jumps(dcode)) >= 4
  /\ \E i \in Starts(dcode) : Fetch(dcode, i) = OPCODE_SET_CONTEXT
====
